---------------------------- MODULE Spec2Model ----------------------------
(***************************************************************************)
(* Astromind (src/app.py): the fatigue monitor's main mission loop.        *)
(*                                                                         *)
(* One loop iteration is one action.  The state is the module-level        *)
(* variables of the script (counters, totals, history, grade), the names   *)
(* bound inside the loop body that survive to the next iteration           *)
(* (status_text, ear, mar, bpm, success), the side effects of the last     *)
(* iteration (beep, log row, report) and the control position pc.          *)
(*                                                                         *)
(* Numbers.  Landmarks live on an integer grid.  A distance is kept as its *)
(* square (calculate_distance is the square root of it) and a ratio of two *)
(* distances as the pair of the two squares, so every threshold test of    *)
(* the source is decided exactly: v/h < n/d  iff  v^2 * d^2 < n^2 * h^2.   *)
(* The clock is counted in tenths of a second.                             *)
(*                                                                         *)
(* The average of the report is a fraction num/den.                        *)
(*                                                                         *)
(* Not modelled: mar_history (src 53, 110), which is written and never     *)
(* read; the pixels; the text of the report.  cap.isOpened() (src 71) is   *)
(* taken to hold until the cleanup releases the camera (src 240).          *)
(***************************************************************************)
EXTENDS Integers, Sequences, FiniteSets, TLC

VARIABLES
    pc,                 \* "running" (in the while loop), "done" (after break
                        \* and cleanup), "error" (an exception left the loop)
    error,              \* name of the exception raised, "none" otherwise
    drowsy_counter,     \* src 48
    yawn_counter,       \* src 49
    total_microsleeps,  \* src 50
    total_yawns,        \* src 51
    ear_history,        \* src 52
    mission_grade,      \* src 54
    avg_ear,            \* src 212: <<>> while the name is unbound, else <<value>>
    success,            \* src 72: result of the last cap.read()
    results,            \* src 84: <<>> when no face was found, else <<landmarks>>
    face,               \* src 93: results.multi_face_landmarks of the last frame
    status_text,        \* src 88
    ear,                \* src 90
    mar,                \* src 91
    bpm,                \* src 174: <<>> while the name is unbound, else <<value>>
    beep,               \* winsound.Beep request of the last iteration
    log_row,            \* TRUE iff the last iteration wrote a telemetry row
    key_q,              \* the operator has pressed 'q' and no waitKey has read it yet
    reports             \* number of mission reports written

vars == <<pc, error, drowsy_counter, yawn_counter, total_microsleeps, total_yawns,
          ear_history, mission_grade, avg_ear, success, results, face, status_text,
          ear, mar, bpm, beep, log_row, key_q, reports>>

---------------------------------------------------------------------------
(* MISSION CONFIG, src 14-17, and the literals of the loop body *)

MICROSLEEP_LIMIT == 15
EMERGENCY_LIMIT == 100
YAWN_EVENT_LIMIT == 15
CAUTION_FLOOR == 5
YAWN_WARNING_FLOOR == 10
CRITICAL_BEEP_EVERY == 5
EMERGENCY_BEEP_EVERY == 30

\* thresholds as fractions num/den
EAR_THRESHOLD == [num |-> 1, den |-> 5]      \* 0.20
MAR_THRESHOLD == [num |-> 2, den |-> 5]      \* 0.40
PRAISE_EAR == [num |-> 1, den |-> 4]         \* 0.25
PRAISE_MAR == [num |-> 1, den |-> 5]         \* 0.2

ONLINE == "SYSTEM: ONLINE"
PRAISE == "PILOT FOCUS: EXCELLENT"
CAUTION == "CAUTION: EYES CLOSING"
CRITICAL == "CRITICAL: WAKE UP!"
EMERGENCY == "!!! AUTOPILOT ENGAGED !!!"
YAWN_WARNING == "FATIGUE DETECTED (YAWN)"

GRADE_S == "S (PERFECT)"
GRADE_A == "A (SAFE)"
GRADE_C == "C (CAUTION)"
GRADE_F == "F (DANGEROUS)"

---------------------------------------------------------------------------
(* Bounds of the exploration *)

MaxEyes == 101          \* long run: frames are explored while drowsy_counter <= MaxEyes
MaxYawn == 12           \* ... and yawn_counter <= MaxYawn
MaxSessionEyes == 16    \* session: drowsy_counter <= MaxSessionEyes
MaxEvents == 2          \* total_microsleeps, total_yawns <= MaxEvents
MaxHist == 1            \* the model keeps the first MaxHist entries of ear_history
MaxTotal == 7           \* grading: totals from 0 to MaxTotal
MaxAlertEyes == 151     \* alert run: drowsy_counter <= MaxAlertEyes
MaxYawnRun == 16        \* yawn run: yawn_counter <= MaxYawnRun
MaxAvgLen == 3          \* report: histories of 0 to MaxAvgLen entries
MaxShift == 2           \* translations by -MaxShift..MaxShift in x and in y

---------------------------------------------------------------------------
(* Landmarks and ratios *)

LandmarkIds == {159, 145, 33, 133, 13, 14, 78, 308}

Pt(px, py) == [x |-> px, y |-> py]

\* the y difference typed as a sum
calculate_distance2SignSlip(p1, p2) ==
    (p1.x - p2.x) * (p1.x - p2.x) + (p1.y + p2.y) * (p1.y + p2.y)

\* the square of calculate_distance(p1, p2)
calculate_distance2(p1, p2) ==
    (p1.x - p2.x) * (p1.x - p2.x) + (p1.y - p2.y) * (p1.y - p2.y)

\* v / h for two distances given by their squares; the float 0.0 is 0/1
Ratio(v2, h2) == [v2 |-> v2, h2 |-> h2]
Zero == Ratio(0, 1)

\* r < f, r > f for a ratio r and a fraction f = num/den
Less(r, f) == r.v2 * f.den * f.den < f.num * f.num * r.h2
Greater(r, f) == r.v2 * f.den * f.den > f.num * f.num * r.h2

\* a face whose eye is ev high and eh wide, whose mouth is mv high and mh wide
FaceOf(ev, eh, mv, mh) ==
    (159 :> Pt(30, 20 + ev)) @@ (145 :> Pt(30, 20)) @@
    (33 :> Pt(20, 22)) @@ (133 :> Pt(20 + eh, 22)) @@
    (13 :> Pt(40, 60 + mv)) @@ (14 :> Pt(40, 60)) @@
    (78 :> Pt(30, 62)) @@ (308 :> Pt(30 + mh, 62))

\* the landmark sets fed to the loop: EAR in {0.15, 0.20, 0.30} with MAR in
\* {0.15, 0.40, 0.45}, a face whose eye corners coincide and a face whose
\* mouth corners coincide
Faces ==
    { FaceOf(ev, 20, mv, 20) : ev \in {3, 4, 6}, mv \in {3, 8, 9} }
    \cup { FaceOf(3, 0, 3, 20), FaceOf(6, 20, 3, 0) }

\* the landmark sets of the runs that need no faulty face: EAR in
\* {0.15, 0.30} with MAR in {0.15, 0.45}
PlainFaces == { FaceOf(ev, 20, mv, 20) : ev \in {3, 6}, mv \in {3, 9} }

\* clock readings, in tenths of a second: 0.0 s (inside the praise flash
\* second and the logging tenth) and 15.2 s (outside both)
Times == {0, 152}

---------------------------------------------------------------------------
(* The loop body, src 87-176 *)

\* src 103: ear_history.append(ear)
HistoryAppend(h, x) == IF Len(h) < MaxHist THEN Append(h, x) ELSE h

\* src 124-127
DrowsyUpdate(d, e) == IF Less(e, EAR_THRESHOLD) THEN d + 1 ELSE 0

\* the yawn counter decaying by one per quiet frame instead of resetting
YawnUpdateDecay(y, m) ==
    IF Greater(m, MAR_THRESHOLD) THEN y + 1 ELSE IF y > 0 THEN y - 1 ELSE 0

\* src 130-133
YawnUpdate(y, m) == IF Greater(m, MAR_THRESHOLD) THEN y + 1 ELSE 0

\* the event counted on every frame at or above the limit
MicrosleepCountLevel(n, d) == IF d >= MICROSLEEP_LIMIT THEN n + 1 ELSE n

\* the event counted one frame after the limit is reached
MicrosleepCountLate(n, d) == IF d = MICROSLEEP_LIMIT + 1 THEN n + 1 ELSE n

\* src 136
MicrosleepCount(n, d) == IF d = MICROSLEEP_LIMIT THEN n + 1 ELSE n

\* the yawn counted on every frame at or above the limit
YawnCountLevel(n, y) == IF y >= YAWN_EVENT_LIMIT THEN n + 1 ELSE n

\* src 137
YawnCount(n, y) == IF y = YAWN_EVENT_LIMIT THEN n + 1 ELSE n

\* src 142: int(time.time()) % 20 == 0
FlashWindow(t) == (t \div 10) % 20 = 0

\* src 141-144
PraiseStage(s, e, m, d, t) ==
    IF Greater(e, PRAISE_EAR) /\ Less(m, PRAISE_MAR) /\ d = 0 /\ FlashWindow(t)
    THEN PRAISE ELSE s

\* the CRITICAL test without its upper limit: the EMERGENCY elif is never reached
EyeStageNoUpper(s, d) ==
    IF d > CAUTION_FLOOR /\ d < MICROSLEEP_LIMIT THEN CAUTION
    ELSE IF d >= MICROSLEEP_LIMIT THEN CRITICAL
    ELSE IF d >= EMERGENCY_LIMIT THEN EMERGENCY
    ELSE s

\* the CRITICAL test with > for >=: CRITICAL one frame late
EyeStageLate(s, d) ==
    IF d > CAUTION_FLOOR /\ d < MICROSLEEP_LIMIT THEN CAUTION
    ELSE IF d > MICROSLEEP_LIMIT /\ d < EMERGENCY_LIMIT THEN CRITICAL
    ELSE IF d >= EMERGENCY_LIMIT THEN EMERGENCY
    ELSE s

\* src 147-161: the if / elif / elif chain on drowsy_counter
EyeStage(s, d) ==
    IF d > CAUTION_FLOOR /\ d < MICROSLEEP_LIMIT THEN CAUTION
    ELSE IF d >= MICROSLEEP_LIMIT /\ d < EMERGENCY_LIMIT THEN CRITICAL
    ELSE IF d >= EMERGENCY_LIMIT THEN EMERGENCY
    ELSE s

\* the yawn warning without its drowsy_counter guard
YawnStageUnguarded(s, d, y) ==
    IF y > YAWN_WARNING_FLOOR THEN YAWN_WARNING ELSE s

\* src 168-170
YawnStage(s, d, y) ==
    IF y > YAWN_WARNING_FLOOR /\ d < MICROSLEEP_LIMIT THEN YAWN_WARNING ELSE s

\* the default bound once before the loop: where no rule matches, the status
\* text of the frame before shows through
StatusOfCarry(e, m, d, y, t) ==
    YawnStage(EyeStage(PraiseStage(status_text, e, m, d, t), d), d, y)

\* the yawn rule placed before the chain on drowsy_counter
StatusOfYawnFirst(e, m, d, y, t) ==
    EyeStage(YawnStage(PraiseStage(ONLINE, e, m, d, t), d, y), d)

\* src 88, 141-170: the status text of a frame with a face
StatusOf(e, m, d, y, t) == YawnStage(EyeStage(PraiseStage(ONLINE, e, m, d, t), d), d, y)

NoBeep == <<>>

\* the CRITICAL beep copied into the CAUTION branch as well
BeepOfCaution(d) ==
    IF d > CAUTION_FLOOR /\ d < MICROSLEEP_LIMIT
         THEN IF d % CRITICAL_BEEP_EVERY = 0 THEN <<1000, 100>> ELSE NoBeep
    ELSE IF d >= MICROSLEEP_LIMIT /\ d < EMERGENCY_LIMIT
         THEN IF d % CRITICAL_BEEP_EVERY = 0 THEN <<1000, 100>> ELSE NoBeep
    ELSE IF d >= EMERGENCY_LIMIT
         THEN IF d % EMERGENCY_BEEP_EVERY = 0 THEN <<2000, 500>> ELSE NoBeep
    ELSE NoBeep

\* the EMERGENCY beep keeping the modulus of the CRITICAL beep
BeepOfEmergencyEveryFive(d) ==
    IF d > CAUTION_FLOOR /\ d < MICROSLEEP_LIMIT THEN NoBeep
    ELSE IF d >= MICROSLEEP_LIMIT /\ d < EMERGENCY_LIMIT
         THEN IF d % CRITICAL_BEEP_EVERY = 0 THEN <<1000, 100>> ELSE NoBeep
    ELSE IF d >= EMERGENCY_LIMIT
         THEN IF d % CRITICAL_BEEP_EVERY = 0 THEN <<2000, 500>> ELSE NoBeep
    ELSE NoBeep

\* src 156, 165: the winsound.Beep call of a frame with a face
BeepOf(d) ==
    IF d > CAUTION_FLOOR /\ d < MICROSLEEP_LIMIT THEN NoBeep
    ELSE IF d >= MICROSLEEP_LIMIT /\ d < EMERGENCY_LIMIT
         THEN IF d % CRITICAL_BEEP_EVERY = 0 THEN <<1000, 100>> ELSE NoBeep
    ELSE IF d >= EMERGENCY_LIMIT
         THEN IF d % EMERGENCY_BEEP_EVERY = 0 THEN <<2000, 500>> ELSE NoBeep
    ELSE NoBeep

\* src 174: 70 + (int(time.time() * 2) % 15)
HeartRate(t) == 70 + ((t \div 5) % 15)

\* src 175: int(time.time() * 10) % 10 == 0
LogTick(t) == t % 10 = 0

\* the A tier gated by the yawns as the S tier is
GradeYawnsGateA(microsleeps, yawns) ==
    IF microsleeps = 0 /\ yawns < 2 THEN GRADE_S
    ELSE IF microsleeps < 3 /\ yawns < 2 THEN GRADE_A
    ELSE IF microsleeps < 6 THEN GRADE_C
    ELSE GRADE_F

\* math.sqrt on the squares the model feeds it (exact on perfect squares,
\* rounded down otherwise)
Root(n) == CHOOSE k \in 0..n : k * k <= n /\ n < (k + 1) * (k + 1)

RECURSIVE Gcd(_, _)
Gcd(a, b) == IF b = 0 THEN a ELSE Gcd(b, a % b)

\* a + b for two fractions num/den, in lowest terms: the value is one number
FracAdd(a, b) ==
    LET n == a.num * b.den + b.num * a.den
        d == a.den * b.den
    IN  [num |-> n \div Gcd(n, d), den |-> d \div Gcd(n, d)]

\* src 212: sum(ear_history), as a fraction
RECURSIVE SumEar(_)
SumEar(h) ==
    IF h = <<>> THEN [num |-> 0, den |-> 1]
    ELSE FracAdd([num |-> Root(Head(h).v2), den |-> Root(Head(h).h2)], SumEar(Tail(h)))

\* the average without its guard for the empty history
AverageUnguarded(h) == [num |-> SumEar(h).num, den |-> SumEar(h).den * Len(h)]

\* src 212: sum(ear_history) / len(ear_history) if ear_history else 0
Average(h) ==
    IF h # <<>>
    THEN [num |-> SumEar(h).num, den |-> SumEar(h).den * Len(h)]
    ELSE [num |-> 0, den |-> 1]

\* src 215-218
Grade(microsleeps, yawns) ==
    IF microsleeps = 0 /\ yawns < 2 THEN GRADE_S
    ELSE IF microsleeps < 3 THEN GRADE_A
    ELSE IF microsleeps < 6 THEN GRADE_C
    ELSE GRADE_F

---------------------------------------------------------------------------

Init ==
    /\ pc = "running"
    /\ error = "none"
    /\ drowsy_counter = 0
    /\ yawn_counter = 0
    /\ total_microsleeps = 0
    /\ total_yawns = 0
    /\ ear_history = <<>>
    /\ mission_grade = "A"
    /\ avg_ear = <<>>
    /\ success = FALSE
    /\ results = <<>>
    /\ face = FALSE
    /\ status_text = "<unbound>"
    /\ ear = Zero
    /\ mar = Zero
    /\ bpm = <<>>
    /\ beep = NoBeep
    /\ log_row = FALSE
    /\ key_q = FALSE
    /\ reports = 0

\* src 207-237: waitKey at the end of an iteration that got as far as imshow
EndOfIteration ==
    IF key_q
    THEN /\ avg_ear' = <<Average(ear_history')>>
         /\ mission_grade' = Grade(total_microsleeps', total_yawns')
         /\ reports' = reports + 1
         /\ key_q' = FALSE
         /\ pc' = "done"
    ELSE /\ pc' = "running"
         /\ UNCHANGED <<avg_ear, mission_grade, reports, key_q>>

\* an exception leaves the while loop: nothing after it runs
Raise(name) ==
    /\ pc' = "error"
    /\ error' = name
    /\ UNCHANGED <<avg_ear, mission_grade, reports, key_q>>

\* src 72-74: cap.read() fails, continue
ReadFail ==
    /\ pc = "running"
    /\ success' = FALSE
    /\ beep' = NoBeep
    /\ log_row' = FALSE
    /\ UNCHANGED <<pc, error, drowsy_counter, yawn_counter, total_microsleeps,
                   total_yawns, ear_history, mission_grade, avg_ear, results, face,
                   status_text, ear, mar, bpm, key_q, reports>>

\* the defaults bound once before the loop: a frame keeps the last values
DefaultsStale == UNCHANGED <<status_text, ear, mar>>

\* src 87-91: the defaults of a frame, all that a frame without a face binds
Defaults ==
    /\ status_text' = ONLINE
    /\ ear' = Zero
    /\ mar' = Zero

\* the counter logic outside the face block: the default ear = 0.0 and
\* mar = 0.0 of a frame without a face are counted as a measurement
SkipFaceBlockCounting ==
    /\ beep' = NoBeep
    /\ log_row' = FALSE
    /\ drowsy_counter' = DrowsyUpdate(drowsy_counter, Zero)
    /\ yawn_counter' = YawnUpdate(yawn_counter, Zero)
    /\ total_microsleeps' = MicrosleepCount(total_microsleeps, drowsy_counter')
    /\ total_yawns' = YawnCount(total_yawns, yawn_counter')
    /\ UNCHANGED <<ear_history, bpm>>

\* src 93: results.multi_face_landmarks is empty, the block 94-176 is skipped
SkipFaceBlock ==
    /\ beep' = NoBeep
    /\ log_row' = FALSE
    /\ UNCHANGED <<drowsy_counter, yawn_counter, total_microsleeps, total_yawns,
                   ear_history, bpm>>

\* src 72-93, 178-237: a frame in which no face is found
NoFaceFrame ==
    /\ pc = "running"
    /\ success' = TRUE
    /\ results' = <<>>
    /\ face' = FALSE
    /\ Defaults
    /\ SkipFaceBlock
    /\ IF bpm = <<>>
       THEN Raise("NameError")                  \* src 198 reads bpm
       ELSE error' = error /\ EndOfIteration

\* src 72-237: a frame with a face whose landmarks are lm, the clock reading t
FaceFrame(lm, t) ==
    LET left_eye_v2 == calculate_distance2(lm[159], lm[145])
        left_eye_h2 == calculate_distance2(lm[33], lm[133])
        mouth_v2 == calculate_distance2(lm[13], lm[14])
        mouth_h2 == calculate_distance2(lm[78], lm[308])
        e == Ratio(left_eye_v2, left_eye_h2)
        m == Ratio(mouth_v2, mouth_h2)
        d == DrowsyUpdate(drowsy_counter, e)
        y == YawnUpdate(yawn_counter, m)
    IN
    /\ pc = "running"
    /\ success' = TRUE
    /\ results' = <<lm>>
    /\ face' = TRUE
    /\ IF left_eye_h2 = 0
       THEN \* src 102: ZeroDivisionError
            /\ Raise("ZeroDivisionError")
            /\ status_text' = ONLINE
            /\ ear' = Zero
            /\ mar' = Zero
            /\ beep' = NoBeep
            /\ log_row' = FALSE
            /\ UNCHANGED <<drowsy_counter, yawn_counter, total_microsleeps,
                           total_yawns, ear_history, bpm>>
       ELSE IF mouth_h2 = 0
       THEN \* src 109: ZeroDivisionError, after src 103
            /\ Raise("ZeroDivisionError")
            /\ status_text' = ONLINE
            /\ ear' = e
            /\ mar' = Zero
            /\ ear_history' = HistoryAppend(ear_history, e)
            /\ beep' = NoBeep
            /\ log_row' = FALSE
            /\ UNCHANGED <<drowsy_counter, yawn_counter, total_microsleeps,
                           total_yawns, bpm>>
       ELSE /\ ear' = e
            /\ mar' = m
            /\ ear_history' = HistoryAppend(ear_history, e)
            /\ drowsy_counter' = d
            /\ yawn_counter' = y
            /\ total_microsleeps' = MicrosleepCount(total_microsleeps, d)
            /\ total_yawns' = YawnCount(total_yawns, y)
            /\ status_text' = StatusOf(e, m, d, y, t)
            /\ beep' = BeepOf(d)
            /\ bpm' = <<HeartRate(t)>>
            /\ log_row' = LogTick(t)
            /\ error' = error
            /\ EndOfIteration

\* the operator presses 'q'; the next waitKey returns it
PressQ ==
    /\ pc = "running"
    /\ ~key_q
    /\ key_q' = TRUE
    /\ UNCHANGED <<pc, error, drowsy_counter, yawn_counter, total_microsleeps,
                   total_yawns, ear_history, mission_grade, avg_ear, success,
                   results, face, status_text, ear, mar, bpm, beep, log_row,
                   reports>>

\* the frames explored: those that keep the counters within the bounds
Bounded(maxEyes, maxYawn) ==
    /\ drowsy_counter' <= maxEyes
    /\ yawn_counter' <= maxYawn
    /\ total_microsleeps' <= MaxEvents
    /\ total_yawns' <= MaxEvents

---------------------------------------------------------------------------
(* The long run: frames with and without a face, up to the emergency stage *)

Face == \E lm \in Faces, t \in Times : FaceFrame(lm, t) /\ Bounded(MaxEyes, MaxYawn)

Next ==
    \/ NoFaceFrame
    \/ Face

Spec == Init /\ [][Next]_vars

---------------------------------------------------------------------------
(* The session: short runs with failed reads and the operator's 'q' *)

SessionFace ==
    \E lm \in Faces, t \in Times :
        FaceFrame(lm, t) /\ Bounded(MaxSessionEyes, MaxYawn)

NextSession ==
    \/ ReadFail
    \/ NoFaceFrame
    \/ SessionFace
    \/ PressQ

SpecSession == Init /\ [][NextSession]_vars

---------------------------------------------------------------------------
(* The scenario: from a fresh session, closed eyes (EAR = 0.15) with a quiet *)
(* mouth until the microsleep is counted, then one frame of open eyes        *)
(* (EAR = 0.30)                                                              *)

\* mouth heights over a width of 20: MAR in {0.15, 0.20, 0.40}, none a yawn
QuietMouths == {3, 4, 8}

\* clock readings of the scenario: 0.0 s, 0.5 s, 15.2 s
ScenarioTimes == {0, 5, 152}

ScenarioClosed ==
    /\ drowsy_counter < MICROSLEEP_LIMIT
    /\ total_microsleeps = 0
    /\ \E mv \in QuietMouths, t \in ScenarioTimes : FaceFrame(FaceOf(3, 20, mv, 20), t)

ScenarioOpen ==
    /\ drowsy_counter = MICROSLEEP_LIMIT
    /\ \E mv \in QuietMouths, t \in ScenarioTimes : FaceFrame(FaceOf(6, 20, mv, 20), t)

NextScenario ==
    \/ ScenarioClosed
    \/ ScenarioOpen

SpecScenario == Init /\ [][NextScenario]_vars

---------------------------------------------------------------------------
(* Grading: the end of a session whose totals are anything up to MaxTotal,   *)
(* after a last frame with open eyes (EAR = 0.20) and a quiet mouth          *)

GradeInit ==
    /\ pc = "running"
    /\ error = "none"
    /\ drowsy_counter = 0
    /\ yawn_counter = 0
    /\ total_microsleeps \in 0..MaxTotal
    /\ total_yawns \in 0..MaxTotal
    /\ ear_history = [i \in 1..MaxHist |-> Ratio(9, 400)]
    /\ mission_grade = "A"
    /\ avg_ear = <<>>
    /\ success = TRUE
    /\ results = <<FaceOf(4, 20, 8, 20)>>
    /\ face = TRUE
    /\ status_text = ONLINE
    /\ ear = Ratio(16, 400)
    /\ mar = Ratio(64, 400)
    /\ bpm = <<HeartRate(152)>>
    /\ beep = NoBeep
    /\ log_row = FALSE
    /\ key_q = FALSE
    /\ reports = 0

NextGrade ==
    \/ ReadFail
    \/ NoFaceFrame
    \/ PressQ

SpecGrade == GradeInit /\ [][NextGrade]_vars

---------------------------------------------------------------------------
(* The alert run: frames with and without a face, far enough into the       *)
(* emergency stage for its second beep                                       *)

AlertFace ==
    \E lm \in PlainFaces, t \in Times :
        FaceFrame(lm, t) /\ Bounded(MaxAlertEyes, MaxYawn)

NextAlert ==
    \/ NoFaceFrame
    \/ AlertFace

SpecAlert == Init /\ [][NextAlert]_vars

---------------------------------------------------------------------------
(* The yawn run: frames with and without a face, the mouth open long enough *)
(* for the yawn to be counted, twice                                         *)

\* EAR in {0.15, 0.30} with MAR in {0.15, 0.40, 0.45}
YawnFaces == { FaceOf(ev, 20, mv, 20) : ev \in {3, 6}, mv \in {3, 8, 9} }

YawnFace ==
    \E lm \in YawnFaces, t \in Times :
        FaceFrame(lm, t) /\ Bounded(MaxSessionEyes, MaxYawnRun)

NextYawn ==
    \/ NoFaceFrame
    \/ YawnFace

SpecYawn == Init /\ [][NextYawn]_vars

---------------------------------------------------------------------------
(* The burst: every frame of the run is read inside one 100 ms tick of the  *)
(* clock, the first tick of a second                                         *)

\* the clock reading of the burst, in tenths of a second
BurstTime == 0

BurstFace ==
    \E lm \in Faces : FaceFrame(lm, BurstTime) /\ Bounded(MaxSessionEyes, MaxYawn)

NextBurst ==
    \/ NoFaceFrame
    \/ BurstFace

SpecBurst == Init /\ [][NextBurst]_vars

---------------------------------------------------------------------------
(* The report: the end of a session whose EAR history is any sequence of up *)
(* to MaxAvgLen entries, after a last frame without a face.  The empty      *)
(* history is the input of src 212 alone: in the loop a report is written   *)
(* only after a frame with a face has bound bpm and appended its EAR.       *)
(* Frames with a face are explored while the model's history is exact.      *)

\* EAR 0.15 and 0.30 over an eye 20 wide, 0.5 over an eye 8 wide
AvgEars == {Ratio(9, 400), Ratio(36, 400), Ratio(16, 64)}

Histories == UNION { [1..n -> AvgEars] : n \in 0..MaxAvgLen }

AvgInit ==
    /\ pc = "running"
    /\ error = "none"
    /\ drowsy_counter = 0
    /\ yawn_counter = 0
    /\ total_microsleeps = 0
    /\ total_yawns = 0
    /\ ear_history \in Histories
    /\ mission_grade = "A"
    /\ avg_ear = <<>>
    /\ success = TRUE
    /\ results = <<>>
    /\ face = FALSE
    /\ status_text = ONLINE
    /\ ear = Zero
    /\ mar = Zero
    /\ bpm = <<HeartRate(152)>>
    /\ beep = NoBeep
    /\ log_row = FALSE
    /\ key_q = FALSE
    /\ reports = 0

AvgFace ==
    /\ Len(ear_history) < MaxHist
    /\ \E lm \in PlainFaces, t \in Times :
           FaceFrame(lm, t) /\ Bounded(MaxSessionEyes, MaxYawn)

NextAvg ==
    \/ NoFaceFrame
    \/ AvgFace
    \/ PressQ

SpecAvg == AvgInit /\ [][NextAvg]_vars

---------------------------------------------------------------------------
(* The first frame: a face whose eight landmarks lie anywhere on three      *)
(* points of the grid that are not on one line                              *)

GridPoints == {Pt(0, 0), Pt(3, 1), Pt(1, 2)}

GridFaces == [LandmarkIds -> GridPoints]

FirstFrame ==
    /\ ~success
    /\ \E lm \in GridFaces, t \in Times : FaceFrame(lm, t)

NextFirst == FirstFrame

SpecFirst == Init /\ [][NextFirst]_vars

---------------------------------------------------------------------------
(* The mission: closed or open eyes over a quiet mouth up to the emergency  *)
(* stage, frames without a face, and the operator's 'q'                      *)

\* EAR in {0.15, 0.30} with MAR = 0.15
QuietFaces == { FaceOf(ev, 20, 3, 20) : ev \in {3, 6} }

MissionFace ==
    \E lm \in QuietFaces, t \in Times :
        FaceFrame(lm, t) /\ Bounded(MaxEyes, MaxYawn)

NextMission ==
    \/ NoFaceFrame
    \/ MissionFace
    \/ PressQ

SpecMission == Init /\ [][NextMission]_vars

---------------------------------------------------------------------------
(* The flash: a short run whose frames are all read inside the praise flash *)
(* second                                                                    *)

\* clock readings inside the flash second: 0.0 s and 0.5 s
FlashTimes == {0, 5}

FlashFace ==
    \E lm \in Faces, t \in FlashTimes :
        FaceFrame(lm, t) /\ Bounded(MaxSessionEyes, MaxYawn)

NextFlash ==
    \/ NoFaceFrame
    \/ FlashFace

SpecFlash == Init /\ [][NextFlash]_vars

---------------------------------------------------------------------------
(* Properties *)

ClosedEyes(r) == Less(r, EAR_THRESHOLD)

\* C1: total_microsleeps goes up by exactly 1 on the step that takes
\* drowsy_counter from 14 to 15 and is unchanged by every other step (so it
\* never goes down and never goes up while the counter stays at or above 15);
\* the counter itself only goes up by 1, stays, or drops to 0, so a second
\* event needs a reset and a new climb to 15.
C1_MicrosleepRisingEdge ==
    [][ /\ drowsy_counter' \in {drowsy_counter, drowsy_counter + 1, 0}
        /\ total_microsleeps' =
              IF drowsy_counter' = MICROSLEEP_LIMIT
                 /\ drowsy_counter = MICROSLEEP_LIMIT - 1
              THEN total_microsleeps + 1
              ELSE total_microsleeps ]_vars

\* a second microsleep has been counted and the eyes have stayed closed past it
C1_Witness ==
    /\ total_microsleeps = 2
    /\ drowsy_counter = MICROSLEEP_LIMIT + 1
    /\ pc = "running"

\* C2 (as claimed): after a frame without a face, or with a face whose eyes
\* are open (EAR >= 0.20), drowsy_counter is 0.
C2_ResetOnNoSignalOrOpen ==
    (pc = "running" /\ success /\ (~face \/ ~ClosedEyes(ear)))
        => drowsy_counter = 0

\* C3 (as claimed): once drowsy_counter has reached EMERGENCY_LIMIT, every
\* frame that does not reset it to 0 shows EMERGENCY.
C3_EmergencyOnEveryFrame ==
    [][ (drowsy_counter >= EMERGENCY_LIMIT /\ pc' = "running"
         /\ drowsy_counter' # 0)
            => status_text' = EMERGENCY ]_vars

\* C3 (amended): once drowsy_counter has reached EMERGENCY_LIMIT, a rendered
\* frame with a face either has open eyes and resets the counter to 0, or
\* counts one more and shows EMERGENCY; a rendered frame without a face
\* shows SYSTEM: ONLINE and keeps the counter.
C3_EmergencySticky ==
    [][ (drowsy_counter >= EMERGENCY_LIMIT /\ pc' = "running")
            => IF face'
               THEN \/ drowsy_counter' = 0 /\ ~ClosedEyes(ear')
                    \/ /\ drowsy_counter' = drowsy_counter + 1
                       /\ ClosedEyes(ear')
                       /\ status_text' = EMERGENCY
               ELSE /\ status_text' = ONLINE
                    /\ drowsy_counter' = drowsy_counter ]_vars

\* the emergency stage was held for two frames, then the face was lost
C3_Witness ==
    /\ drowsy_counter = EMERGENCY_LIMIT + 1
    /\ ~face
    /\ status_text = ONLINE
    /\ pc = "running"

\* C4: after a rendered frame with a face, MICROSLEEP_LIMIT <= drowsy_counter
\* < EMERGENCY_LIMIT shows CRITICAL and drowsy_counter >= EMERGENCY_LIMIT
\* shows EMERGENCY, whatever yawn_counter is.
C4_EyeRulesBeatYawnRule ==
    (pc = "running" /\ face) =>
        /\ (drowsy_counter >= MICROSLEEP_LIMIT /\ drowsy_counter < EMERGENCY_LIMIT)
              => status_text = CRITICAL
        /\ drowsy_counter >= EMERGENCY_LIMIT => status_text = EMERGENCY

\* the example of the claim: eyes closed for 20 frames, yawning for 12
C4_Witness ==
    /\ pc = "running" /\ face
    /\ drowsy_counter = 20
    /\ yawn_counter = 12
    /\ status_text = CRITICAL

\* C5: in the scenario, frame n of the closed-eyes run (n = drowsy_counter)
\* shows SYSTEM: ONLINE for n <= 5, CAUTION for 5 < n < 15 and CRITICAL at
\* n = 15, total_microsleeps is 0 before frame 15 and 1 after it; the frame
\* of open eyes that follows resets drowsy_counter to 0, shows SYSTEM: ONLINE
\* or PRAISE, and total_microsleeps is still 1.
C5_Scenario ==
    /\ pc = "running"
    /\ (face /\ ClosedEyes(ear)) =>
          /\ drowsy_counter \in 1..MICROSLEEP_LIMIT
          /\ status_text = IF drowsy_counter <= 5 THEN ONLINE
                           ELSE IF drowsy_counter < 15 THEN CAUTION
                           ELSE CRITICAL
          /\ total_microsleeps = IF drowsy_counter = 15 THEN 1 ELSE 0
    /\ (face /\ ~ClosedEyes(ear)) =>
          /\ drowsy_counter = 0
          /\ status_text \in {ONLINE, PRAISE}
          /\ total_microsleeps = 1

\* the eyes have opened after the 15 frames and the praise is shown
C5_Witness ==
    /\ face /\ ~ClosedEyes(ear)
    /\ drowsy_counter = 0
    /\ total_microsleeps = 1
    /\ status_text = PRAISE

\* C6 (as claimed): no sequence of frames takes the loop to an error.
C6_NoFatalFrame == pc # "error"

\* C7 (as claimed): the end-session signal is checked at the end of every
\* iteration: no iteration ends with the loop still running while the signal
\* is raised.
C7_QuitCheckedEveryIteration ==
    [][ (key_q /\ pc = "running") => pc' # "running" ]_vars

\* C8: the grade of a finished session is S iff no microsleep and fewer than
\* 2 yawns; else A iff fewer than 3 microsleeps; else C iff fewer than 6;
\* else F; the yawns matter to the S tier only.
C8_GradeTable ==
    pc = "done" =>
        /\ mission_grade = GRADE_S <=> (total_microsleeps = 0 /\ total_yawns < 2)
        /\ mission_grade = GRADE_A <=>
              \/ total_microsleeps \in 1..2
              \/ total_microsleeps = 0 /\ total_yawns >= 2
        /\ mission_grade = GRADE_C <=> total_microsleeps \in 3..5
        /\ mission_grade = GRADE_F <=> total_microsleeps >= 6
        /\ (total_microsleeps = 0 /\ total_yawns = 1) => mission_grade = GRADE_S
        /\ total_microsleeps = 2 => mission_grade = GRADE_A
        /\ total_microsleeps = 4 => mission_grade = GRADE_C
        /\ total_microsleeps = 6 => mission_grade = GRADE_F

\* a session without microsleeps but with many yawns is graded A
C8_Witness ==
    /\ pc = "done"
    /\ reports = 1
    /\ total_microsleeps = 0
    /\ total_yawns = 5
    /\ mission_grade = GRADE_A

\* C9: after a frame in which no face was found the status text is
\* SYSTEM: ONLINE, whatever the counters are.
C9_NoFaceIsNeutral == (success /\ ~face) => status_text = ONLINE

\* the face is lost while the eyes count stands at CRITICAL and the yawn
\* count above the warning floor
C9_Witness ==
    /\ success /\ ~face
    /\ pc = "running"
    /\ drowsy_counter = MICROSLEEP_LIMIT
    /\ yawn_counter > YAWN_WARNING_FLOOR
    /\ status_text = ONLINE

\* C10: a frame without a face changes neither counter, neither total and
\* not the EAR history, requests no beep and writes no telemetry row.
C10_NoFaceNoBookkeeping ==
    [][ ~face' =>
          /\ UNCHANGED <<drowsy_counter, yawn_counter, total_microsleeps,
                         total_yawns, ear_history>>
          /\ beep' = NoBeep
          /\ log_row' = FALSE ]_vars

\* the face is lost one frame before the microsleep would be counted
C10_Witness ==
    /\ success /\ ~face
    /\ pc = "running"
    /\ drowsy_counter = MICROSLEEP_LIMIT - 1
    /\ yawn_counter = YAWN_WARNING_FLOOR
    /\ total_microsleeps = 1
    /\ Len(ear_history) > 0

\* C11: whenever the last iteration requested a beep, the status text it
\* left on screen is CRITICAL or EMERGENCY: none of SYSTEM: ONLINE, PRAISE,
\* CAUTION and the yawn warning comes with a beep.
C11_BeepOnlyCriticalOrEmergency ==
    beep # NoBeep => status_text \in {CRITICAL, EMERGENCY}

\* the first EMERGENCY beep, with the yawn count above the warning floor
C11_Witness ==
    /\ pc = "running" /\ face
    /\ drowsy_counter = 120
    /\ yawn_counter > YAWN_WARNING_FLOOR
    /\ beep = <<2000, 500>>
    /\ status_text = EMERGENCY

\* C12: a frame with a face and closed eyes that ends at or above
\* EMERGENCY_LIMIT has counted exactly one more than the frame before it,
\* shows EMERGENCY, and requests the 2000 Hz beep iff drowsy_counter is a
\* multiple of 30: over consecutive such frames the counter runs through
\* consecutive integers, so 30 frames in a row hold exactly one beep.
C12_EmergencyBeepEveryThirty ==
    [][ (pc' = "running" /\ face' /\ ClosedEyes(ear')
         /\ drowsy_counter' >= EMERGENCY_LIMIT)
            => /\ drowsy_counter' = drowsy_counter + 1
               /\ status_text' = EMERGENCY
               /\ beep' = IF drowsy_counter' % 30 = 0
                          THEN <<2000, 500>> ELSE NoBeep ]_vars

\* the second EMERGENCY beep, 30 frames after the first
C12_Witness ==
    /\ pc = "running" /\ face
    /\ drowsy_counter = 150
    /\ status_text = EMERGENCY
    /\ beep = <<2000, 500>>

\* C13: total_yawns goes up by exactly 1 on the step that takes yawn_counter
\* from 14 to 15 and is unchanged by every other step, whatever
\* drowsy_counter and the status text are; yawn_counter only goes up by 1,
\* stays, or drops to 0, and a frame with a face and MAR <= 0.40 leaves it
\* at 0, so a second yawn needs a reset and a new climb to 15.
C13_YawnRisingEdge ==
    [][ /\ yawn_counter' \in {yawn_counter, yawn_counter + 1, 0}
        /\ total_yawns' =
              IF yawn_counter' = YAWN_EVENT_LIMIT
                 /\ yawn_counter = YAWN_EVENT_LIMIT - 1
              THEN total_yawns + 1
              ELSE total_yawns
        /\ (pc' = "running" /\ face' /\ ~Greater(mar', MAR_THRESHOLD))
              => yawn_counter' = 0 ]_vars

\* a second yawn has been counted and the mouth has stayed open past it,
\* while the eyes count stands at CRITICAL
C13_Witness ==
    /\ pc = "running" /\ face
    /\ total_yawns = 2
    /\ yawn_counter = YAWN_EVENT_LIMIT + 1
    /\ drowsy_counter = MICROSLEEP_LIMIT
    /\ status_text = CRITICAL

\* C14: after a rendered frame with a face, yawn_counter > 10 with
\* drowsy_counter < 15 shows the yawn warning, also when 5 < drowsy_counter
\* would otherwise show CAUTION; and the yawn warning is on screen in no
\* state where yawn_counter <= 10.
C14_YawnRuleLast ==
    /\ (pc = "running" /\ face /\ yawn_counter > YAWN_WARNING_FLOOR
        /\ drowsy_counter < MICROSLEEP_LIMIT) => status_text = YAWN_WARNING
    /\ status_text = YAWN_WARNING => yawn_counter > YAWN_WARNING_FLOOR

\* the yawn warning replaces CAUTION
C14_Witness ==
    /\ pc = "running" /\ face
    /\ drowsy_counter = 8
    /\ yawn_counter = 11
    /\ status_text = YAWN_WARNING

\* C15 (as claimed): at most one telemetry row is written per 100 ms tick,
\* however many frames fall inside it: when all frames are read inside one
\* tick, a frame that follows a frame that wrote a row writes none.
C15_OneRowPerTick ==
    [][ ~(log_row /\ log_row') ]_vars

C18_TranslationInvariant ==
    (pc = "running" /\ face) =>
        \A dx \in -MaxShift..MaxShift, dy \in -MaxShift..MaxShift :
            LET lm == [i \in LandmarkIds |->
                          Pt(results[1][i].x + dx, results[1][i].y + dy)]
            IN  /\ ear = Ratio(calculate_distance2(lm[159], lm[145]),
                               calculate_distance2(lm[33], lm[133]))
                /\ mar = Ratio(calculate_distance2(lm[13], lm[14]),
                               calculate_distance2(lm[78], lm[308]))

\* a face whose eye and mouth axes are oblique to the grid
C18_Witness ==
    /\ pc = "running" /\ face
    /\ results[1][159] = Pt(1, 2) /\ results[1][145] = Pt(0, 0)
    /\ results[1][33] = Pt(0, 0) /\ results[1][133] = Pt(3, 1)
    /\ ear = Ratio(5, 10)
    /\ mar = Ratio(10, 5)

\* C19: whenever the status text is CRITICAL or EMERGENCY, and whenever
\* drowsy_counter is at or above MICROSLEEP_LIMIT, total_microsleeps is at
\* least 1; total_microsleeps never goes down; and a finished session with
\* total_microsleeps >= 1 is not graded S.  So a session that ever showed
\* CRITICAL or EMERGENCY is never graded S.
C19_CriticalImpliesMicrosleep ==
    /\ [](status_text \in {CRITICAL, EMERGENCY} => total_microsleeps >= 1)
    /\ [](drowsy_counter >= MICROSLEEP_LIMIT => total_microsleeps >= 1)
    /\ []((pc = "done" /\ total_microsleeps >= 1) => mission_grade # GRADE_S)
    /\ [][total_microsleeps' >= total_microsleeps]_vars

\* the session is ended on the first EMERGENCY frame and graded A
C19_Witness ==
    /\ pc = "done"
    /\ status_text = EMERGENCY
    /\ drowsy_counter = EMERGENCY_LIMIT
    /\ total_microsleeps = 1
    /\ mission_grade = GRADE_A

\* C20: after a rendered frame with a face on which the praise predicate
\* holds (EAR > 0.25, MAR < 0.20, drowsy_counter = 0), yawn_counter is 0 as
\* well, so no other rule matches: inside the flash second the status text
\* is PRAISE, never overwritten; and PRAISE is on screen only after such a
\* frame.
C20_PraiseExclusive ==
    /\ (pc = "running" /\ face /\ Greater(ear, PRAISE_EAR)
        /\ Less(mar, PRAISE_MAR) /\ drowsy_counter = 0)
          => (yawn_counter = 0 /\ status_text = PRAISE)
    /\ status_text = PRAISE
          => /\ face /\ Greater(ear, PRAISE_EAR) /\ Less(mar, PRAISE_MAR)
             /\ drowsy_counter = 0 /\ yawn_counter = 0

\* the praise is shown after a microsleep, on a frame read at 0.5 s that
\* writes no telemetry row
C20_Witness ==
    /\ pc = "running" /\ face
    /\ status_text = PRAISE
    /\ total_microsleeps = 1
    /\ drowsy_counter = 0
    /\ yawn_counter = 0
    /\ ~log_row

=============================================================================
